---- MODULE Spec2Model ----
(***************************************************************************)
(* zarr_checksum: the calculator (src/zarr_checksum/calculator.py) and the *)
(* checksum tree it drives (zarr_checksum.tree, imported at line 13).      *)
(*                                                                         *)
(* Two specifications:                                                     *)
(*   Spec    compute_zarr_checksum over a leaf source: add_leaf for every  *)
(*           record, then process, with the tree's ingestion, depth-first  *)
(*           resolution and canonical encoding.                            *)
(*   SpecS3  yield_files_s3: the probe listing, the continuation-token     *)
(*           loop and the mapping of object keys to relative paths.        *)
(*                                                                         *)
(* The directory hash is modelled as an injective constructor over the     *)
(* canonical manifest (collision-freedom is the stated assumption).        *)
(***************************************************************************)
EXTENDS Integers, Sequences, FiniteSets, TLC

(***************************************************************************)
(* Bounds                                                                  *)
(***************************************************************************)
\* longest leaf sequence a source yields
MaxLeaves == 3
\* most objects in a bucket
MaxObjects == 2
\* most keys a listing response carries
MaxKeys == 2

VARIABLES
    \* ---- compute_zarr_checksum
    generator,      \* the records the leaf source yields, in order
    fails,          \* the source raises once those records are exhausted
    pc,             \* position in compute_zarr_checksum
    i,              \* index of the next record of the for loop
    registry,       \* the tree: directory path -> node
    calls,          \* the tree's methods called so far, in order
    resolveLog,     \* directory paths in the order process resolved them
    error,          \* the exception that ended the run, or "none"
    result,         \* the value compute_zarr_checksum returned
    \* ---- yield_files_s3
    bucket,         \* the keys of the objects in the bucket
    pageSize,       \* how many keys the store puts in one response
    prefix,         \* the prefix argument
    s3pc,           \* position in yield_files_s3
    continuation_token,
    options,        \* the ContinuationToken held by the options dict (0: none)
    res,            \* the response of the current iteration
    mapped,         \* the objects of res the generator has still to map
    requests,       \* every list_objects_v2 request made: [Prefix, Token]
    responses,      \* every response to a request of the loop, in order
    yielded,        \* the records yielded so far, each with the key it came from
    s3error         \* the exception that ended the enumeration, or "none"

treeVars == <<generator, fails, pc, i, registry, calls, resolveLog, error, result>>
s3Vars == <<bucket, pageSize, prefix, s3pc, continuation_token, options, res, mapped,
            requests, responses, yielded, s3error>>
vars == <<treeVars, s3Vars>>

(***************************************************************************)
(* Paths of the tree: sequences of segments.                               *)
(***************************************************************************)
Names == {"a", "b", "c", "x", "y"}

\* byte-wise order of the names
NameRank(n) ==
    CASE n = "a" -> 1 [] n = "b" -> 2 [] n = "c" -> 3 [] n = "x" -> 4 [] n = "y" -> 5

Parent(path) == SubSeq(path, 1, Len(path) - 1)

FileName(path) == path[Len(path)]

\* ChecksummedFile: the records a source may yield
ChecksummedFile(p, s, d) == [path |-> p, size |-> s, digest |-> d]

R1 == ChecksummedFile(<<"a", "b", "x">>, 10, "d1")
R2 == ChecksummedFile(<<"a", "b", "y">>, 20, "d2")
R3 == ChecksummedFile(<<"a", "c">>, 30, "d3")
\* the path of R1 with another content
R4 == ChecksummedFile(<<"a", "b", "x">>, 20, "d2")
\* a file named as the directory a
R5 == ChecksummedFile(<<"a">>, 10, "d1")
R6 == ChecksummedFile(<<"c", "x">>, 0, "d1")
R7 == ChecksummedFile(<<"x">>, 30, "d3")

LeafUniverse == {R1, R2, R3, R4, R5, R6, R7}

Sizes == {0, 10, 20, 30}

Digests == {"d1", "d2", "d3"}

(***************************************************************************)
(* ZarrChecksumTree: the node registry, add_leaf, encode, process.         *)
(***************************************************************************)
NoFiles == [n \in {} |-> 0]

NoDigest == [md5 |-> <<>>]

Unresolved == [ok |-> FALSE, digest |-> NoDigest, total_size |-> 0, total_file_count |-> 0]

NewNode == [files |-> NoFiles, subdirectories |-> {}, resolved |-> Unresolved]

EmptyRegistry == [p \in {} |-> NewNode]

\* a node for `path` and for every ancestor, each linked into its parent
RECURSIVE EnsureNode(_, _)
EnsureNode(reg, path) ==
    IF path \in DOMAIN reg THEN reg
    ELSE IF path = <<>> THEN reg @@ (<<>> :> NewNode)
    ELSE LET up == EnsureNode(reg, Parent(path))
             linked == [up EXCEPT ![Parent(path)].subdirectories = @ \cup {FileName(path)}]
         IN  linked @@ (path :> NewNode)

add_leaf(reg, leaf) ==
    LET dir == Parent(leaf.path)
        name == FileName(leaf.path)
    IN  IF dir \in DOMAIN reg /\ name \in DOMAIN reg[dir].files
        THEN [error |-> "DuplicatePathError", registry |-> reg]
        ELSE LET chain == EnsureNode(reg, dir)
             IN  [error |-> "none",
                  registry |-> [chain EXCEPT ![dir].files =
                                   @ @@ (name :> [size |-> leaf.size, digest |-> leaf.digest])]]

\* the names of a set, sorted byte-wise
RECURSIVE SortedNames(_)
SortedNames(S) ==
    IF S = {} THEN <<>>
    ELSE LET m == CHOOSE n \in S : \A o \in S : NameRank(n) <= NameRank(o)
         IN  <<m>> \o SortedNames(S \ {m})

\* the combined manifest: per name in sorted order, the file entry and then the
\* directory entry
RECURSIVE Manifest(_, _, _)
Manifest(names, files, subdirectories) ==
    IF names = <<>> THEN <<>>
    ELSE LET n == Head(names)
             f == IF n \in DOMAIN files
                  THEN << <<n, files[n].size, files[n].digest>> >>
                  ELSE <<>>
             d == IF n \in DOMAIN subdirectories
                  THEN << <<n, subdirectories[n].total_size, subdirectories[n].digest,
                            subdirectories[n].total_file_count>> >>
                  ELSE <<>>
         IN  f \o d \o Manifest(Tail(names), files, subdirectories)

RECURSIVE SumSizes(_, _)
SumSizes(f, S) ==
    IF S = {} THEN 0
    ELSE LET n == CHOOSE m \in S : TRUE IN f[n].size + SumSizes(f, S \ {n})

RECURSIVE SumTotals(_, _)
SumTotals(f, S) ==
    IF S = {} THEN 0
    ELSE LET n == CHOOSE m \in S : TRUE IN f[n].total_size + SumTotals(f, S \ {n})

RECURSIVE SumCounts(_, _)
SumCounts(f, S) ==
    IF S = {} THEN 0
    ELSE LET n == CHOOSE m \in S : TRUE IN f[n].total_file_count + SumCounts(f, S \ {n})

\* the directory hash: injective on canonical manifests
Hash(manifest) == [md5 |-> manifest]

\* CanonicalEncoder.encode: files is name -> {size, digest}, subdirectories is
\* name -> the child's resolved value
encode(files, subdirectories) ==
    [ok |-> TRUE,
     digest |-> Hash(Manifest(SortedNames(DOMAIN files \cup DOMAIN subdirectories),
                              files, subdirectories)),
     total_size |-> SumSizes(files, DOMAIN files)
                    + SumTotals(subdirectories, DOMAIN subdirectories),
     total_file_count |-> Cardinality(DOMAIN files)
                          + SumCounts(subdirectories, DOMAIN subdirectories)]

\* the output token <hex-digest>-<total_file_count>--<total_size>
Format(resolved) == <<resolved.digest, resolved.total_file_count, resolved.total_size>>

UnresolvedPaths(reg) == {p \in DOMAIN reg : ~reg[p].resolved.ok}

\* variant: the shallowest unresolved group first
ShallowestDepth(reg) ==
    CHOOSE d \in {Len(p) : p \in {q \in DOMAIN reg : ~reg[q].resolved.ok}} :
        \A p \in {q \in DOMAIN reg : ~reg[q].resolved.ok} : d <= Len(p)

\* the depth group process works on: the greatest depth still unresolved
CurrentDepth(reg) ==
    CHOOSE d \in {Len(p) : p \in UnresolvedPaths(reg)} :
        \A p \in UnresolvedPaths(reg) : Len(p) <= d

ChildrenResolved(reg, path) ==
    \A n \in reg[path].subdirectories : reg[Append(path, n)].resolved.ok

\* one visit of process: the node's resolved value from its files and its
\* children's resolved values
ResolveNode(reg, path) ==
    [reg EXCEPT ![path].resolved =
        encode(reg[path].files,
               [n \in reg[path].subdirectories |-> reg[Append(path, n)].resolved])]

EmptyStoreResult == Format(encode(NoFiles, [n \in {} |-> Unresolved]))

NoResult == [returned |-> FALSE, value |-> <<NoDigest, 0, 0>>]

Returned(v) == [returned |-> TRUE, value |-> v]

\* process as one call: every directory resolved, deepest group first
RECURSIVE ResolveAll(_)
ResolveAll(reg) ==
    IF UnresolvedPaths(reg) = {} THEN [error |-> "none", registry |-> reg]
    ELSE LET p == CHOOSE q \in UnresolvedPaths(reg) : Len(q) = CurrentDepth(reg)
         IN  IF ChildrenResolved(reg, p)
             THEN ResolveAll(ResolveNode(reg, p))
             ELSE [error |-> "StructuralInvariantError", registry |-> reg]

process(reg) ==
    IF DOMAIN reg = {} THEN [error |-> "none", result |-> Returned(EmptyStoreResult)]
    ELSE LET r == ResolveAll(reg)
         IN  IF r.error = "none"
             THEN [error |-> "none", result |-> Returned(Format(r.registry[<<>>].resolved))]
             ELSE [error |-> r.error, result |-> NoResult]

(***************************************************************************)
(* compute_zarr_checksum                                                   *)
(***************************************************************************)
\* variant: the loop stops one record short
LoopDoneEarly(k, gen) == k >= Len(gen)

\* the for loop has consumed the source
LoopDone(k, gen) == k > Len(gen)

\* variant: the size is not passed on
LeafArgsNoSize(file) == [path |-> file.path, size |-> 0, digest |-> file.digest]

\* the keyword arguments of the add_leaf call
LeafArgs(file) == [path |-> file.path, size |-> file.size, digest |-> file.digest]

NoArgs == [path |-> <<>>, size |-> 0, digest |-> ""]

AddLeafCall(file) == [method |-> "add_leaf", args |-> LeafArgs(file)]

ProcessCallEntry == [method |-> "process", args |-> NoArgs]

\* the whole function on a source that does not raise
RECURSIVE RunFrom(_, _, _)
RunFrom(reg, gen, k) ==
    IF LoopDone(k, gen) THEN process(reg)
    ELSE LET r == add_leaf(reg, LeafArgs(gen[k]))
         IN  IF r.error = "none" THEN RunFrom(r.registry, gen, k + 1)
             ELSE [error |-> r.error, result |-> NoResult]

compute_zarr_checksum(gen) == RunFrom(EmptyRegistry, gen, 1)

\* the registry when the for loop ends
RECURSIVE IngestFrom(_, _, _)
IngestFrom(reg, gen, k) ==
    IF LoopDone(k, gen) THEN reg
    ELSE IngestFrom(add_leaf(reg, LeafArgs(gen[k])).registry, gen, k + 1)

SeqsUpTo(S, n) == UNION {[1..k -> S] : k \in 0..n}

NoResponse == [Contents |-> <<>>, NextContinuationToken |-> 0]

Init ==
    /\ generator \in SeqsUpTo(LeafUniverse, MaxLeaves)
    /\ fails \in BOOLEAN
    /\ pc = "loop"
    /\ i = 1
    /\ registry = EmptyRegistry
    /\ calls = <<>>
    /\ resolveLog = <<>>
    /\ error = "none"
    /\ result = NoResult
    /\ bucket = {}
    /\ pageSize = 1
    /\ prefix = <<>>
    /\ s3pc = "idle"
    /\ continuation_token = 0
    /\ options = 0
    /\ res = NoResponse
    /\ mapped = <<>>
    /\ requests = <<>>
    /\ responses = <<>>
    /\ yielded = <<>>
    /\ s3error = "none"

\* variant: an exception of add_leaf is caught and the loop goes on
AddLeafStepSwallow ==
    /\ pc = "loop"
    /\ ~LoopDone(i, generator)
    /\ calls' = Append(calls, AddLeafCall(generator[i]))
    /\ registry' = add_leaf(registry, LeafArgs(generator[i])).registry
    /\ i' = i + 1
    /\ UNCHANGED <<generator, fails, pc, error, resolveLog, result, s3Vars>>

\* tree.add_leaf(path=file.path, size=file.size, digest=file.digest); an
\* exception of add_leaf leaves the function
AddLeafStep ==
    /\ pc = "loop"
    /\ ~LoopDone(i, generator)
    /\ LET r == add_leaf(registry, LeafArgs(generator[i]))
       IN  /\ calls' = Append(calls, AddLeafCall(generator[i]))
           /\ IF r.error = "none"
              THEN /\ registry' = r.registry
                   /\ i' = i + 1
                   /\ UNCHANGED <<pc, error>>
              ELSE /\ pc' = "raised"
                   /\ error' = r.error
                   /\ UNCHANGED <<registry, i>>
    /\ UNCHANGED <<generator, fails, resolveLog, result, s3Vars>>

\* the source raises instead of ending: the exception leaves the function
SourceRaises ==
    /\ pc = "loop"
    /\ LoopDone(i, generator)
    /\ fails
    /\ pc' = "raised"
    /\ error' = "SourceError"
    /\ UNCHANGED <<generator, fails, i, registry, calls, resolveLog, result, s3Vars>>

\* variant: a source without records is rejected
LoopExitRejectsEmpty ==
    /\ pc = "loop"
    /\ LoopDone(i, generator)
    /\ ~fails
    /\ IF Len(generator) = 0
       THEN pc' = "raised" /\ error' = "NoFilesError"
       ELSE pc' = "process" /\ UNCHANGED error
    /\ UNCHANGED <<generator, fails, i, registry, calls, resolveLog, result, s3Vars>>

\* the source is exhausted: the for loop ends
LoopExit ==
    /\ pc = "loop"
    /\ LoopDone(i, generator)
    /\ ~fails
    /\ pc' = "process"
    /\ UNCHANGED <<generator, fails, i, registry, calls, resolveLog, error, result, s3Vars>>

\* return tree.process(): the call
ProcessCall ==
    /\ pc = "process"
    /\ calls' = Append(calls, ProcessCallEntry)
    /\ pc' = "in_process"
    /\ UNCHANGED <<generator, fails, i, registry, resolveLog, error, result, s3Vars>>

\* process on a tree with no node: the empty-store digest
ProcessEmpty ==
    /\ pc = "in_process"
    /\ DOMAIN registry = {}
    /\ result' = Returned(EmptyStoreResult)
    /\ pc' = "done"
    /\ UNCHANGED <<generator, fails, i, registry, calls, resolveLog, error, s3Vars>>

\* process visits one directory of the deepest unresolved group
ResolveStep ==
    /\ pc = "in_process"
    /\ \E p \in UnresolvedPaths(registry) :
          /\ Len(p) = CurrentDepth(registry)
          /\ IF ChildrenResolved(registry, p)
             THEN /\ registry' = ResolveNode(registry, p)
                  /\ resolveLog' = Append(resolveLog, p)
                  /\ UNCHANGED <<pc, error>>
             ELSE /\ pc' = "raised"
                  /\ error' = "StructuralInvariantError"
                  /\ UNCHANGED <<registry, resolveLog>>
    /\ UNCHANGED <<generator, fails, i, calls, result, s3Vars>>

\* every depth processed: the root's resolved value, formatted, is returned
ProcessReturn ==
    /\ pc = "in_process"
    /\ DOMAIN registry # {}
    /\ UnresolvedPaths(registry) = {}
    /\ result' = Returned(Format(registry[<<>>].resolved))
    /\ pc' = "done"
    /\ UNCHANGED <<generator, fails, i, registry, calls, resolveLog, error, s3Vars>>

Next ==
    \/ AddLeafStep
    \/ SourceRaises
    \/ LoopExit
    \/ ProcessCall
    \/ ProcessEmpty
    \/ ResolveStep
    \/ ProcessReturn

Spec == Init /\ [][Next]_vars

(***************************************************************************)
(* Properties of compute_zarr_checksum, checked under Spec.                *)
(***************************************************************************)
DistinctPaths(gen) ==
    \A j, k \in 1..Len(gen) : j # k => gen[j].path # gen[k].path

\* every order in which the records of gen can be supplied
Orders(gen) ==
    {[k \in 1..Len(gen) |-> gen[f[k]]] : f \in Permutations(1..Len(gen))}

\* C1: for a leaf set with pairwise distinct paths supplied by a source that
\* does not raise, the registry when ingestion ends and the value returned are
\* the ones every other order of the same records gives.
C1_OrderIndependence ==
    (DistinctPaths(generator) /\ ~fails) =>
        /\ pc = "process" =>
              \A q \in Orders(generator) : IngestFrom(EmptyRegistry, q, 1) = registry
        /\ pc = "done" =>
              \A q \in Orders(generator) :
                  compute_zarr_checksum(q) = [error |-> "none", result |-> result]

C1_Witness ==
    /\ pc = "done"
    /\ generator = <<R3, R2, R1>>
    /\ result.returned

IsUnder(path, dir) == Len(path) > Len(dir) /\ SubSeq(path, 1, Len(dir)) = dir

LeavesUnder(gen, dir) == {k \in 1..Len(gen) : IsUnder(gen[k].path, dir)}

RECURSIVE SumLeafSizes(_, _)
SumLeafSizes(gen, K) ==
    IF K = {} THEN 0
    ELSE LET k == CHOOSE j \in K : TRUE IN gen[k].size + SumLeafSizes(gen, K \ {k})

\* C2: once process has returned, every directory node carries the sum of the
\* sizes and the number of the leaf records in its subtree, the returned
\* token carries those of the whole leaf set, and the leaves a/b/x (10),
\* a/b/y (20), a/c (30) give 60 and 3 at the root.
C2_Aggregates ==
    pc = "done" =>
        /\ \A p \in DOMAIN registry :
              /\ registry[p].resolved.ok
              /\ registry[p].resolved.total_size
                    = SumLeafSizes(generator, LeavesUnder(generator, p))
              /\ registry[p].resolved.total_file_count
                    = Cardinality(LeavesUnder(generator, p))
        /\ result.value[3] = SumLeafSizes(generator, 1..Len(generator))
        /\ result.value[2] = Len(generator)
        /\ {generator[k] : k \in 1..Len(generator)} = {R1, R2, R3} =>
              /\ registry[<<>>].resolved.total_size = 60
              /\ registry[<<>>].resolved.total_file_count = 3

C2_Witness ==
    /\ pc = "done"
    /\ generator = <<R1, R2, R3>>
    /\ registry[<<"a", "b">>].resolved.total_size = 30

HasDuplicate(gen) == ~DistinctPaths(gen)

\* the position of the first record whose path an earlier record carries
FirstDuplicate(gen) ==
    CHOOSE k \in 1..Len(gen) :
        /\ \E j \in 1..(k - 1) : gen[j].path = gen[k].path
        /\ DistinctPaths(SubSeq(gen, 1, k - 1))

ProcessCalled == \E k \in 1..Len(calls) : calls[k].method = "process"

\* C3: when the leaf sequence repeats a path, the add_leaf call for the first
\* repeated record raises DuplicatePathError, no call follows it, process is
\* never called and nothing is returned.
C3_DuplicateRejected ==
    HasDuplicate(generator) =>
        /\ Len(calls) <= FirstDuplicate(generator)
        /\ Len(calls) = FirstDuplicate(generator) =>
              pc = "raised" /\ error = "DuplicatePathError"
        /\ Len(calls) < FirstDuplicate(generator) => pc = "loop" /\ error = "none"
        /\ ~ProcessCalled
        /\ ~result.returned

C3_Witness ==
    /\ generator = <<R1, R3, R4>>
    /\ pc = "raised"
    /\ error = "DuplicatePathError"
    /\ Len(calls) = 3

RemoveAt(gen, k) == SubSeq(gen, 1, k - 1) \o SubSeq(gen, k + 1, Len(gen))

\* the directories of a leaf sequence, the root excluded
DirectoriesOf(gen) ==
    UNION {{SubSeq(gen[k].path, 1, d) : d \in 1..(Len(gen[k].path) - 1)} : k \in 1..Len(gen)}

RenameDirectory(gen, dir, n) ==
    [k \in 1..Len(gen) |->
        IF IsUnder(gen[k].path, dir)
        THEN [gen[k] EXCEPT !.path =
                 Append(Parent(dir), n) \o SubSeq(gen[k].path, Len(dir) + 1, Len(gen[k].path))]
        ELSE gen[k]]

\* the leaf sequences that differ from gen in exactly one respect
Variants(gen) ==
    LET K == 1..Len(gen)
    IN  {v \in
            {[gen EXCEPT ![k].digest = d] : k \in K, d \in Digests}
            \cup {[gen EXCEPT ![k].size = z] : k \in K, z \in Sizes}
            \cup {RemoveAt(gen, k) : k \in K}
            \cup {Append(gen, r) : r \in LeafUniverse}
            \cup {[gen EXCEPT ![k].path = Append(Parent(@), n)] : k \in K, n \in Names}
            \cup {RenameDirectory(gen, d[1], d[2]) : d \in DirectoriesOf(gen) \X Names} :
         v # gen /\ DistinctPaths(v)}

\* C4: the value returned for a leaf set with distinct paths differs from the
\* value returned for every leaf set that differs from it in one leaf's digest,
\* one leaf's size, one leaf added or removed, or one file or directory name.
C4_Sensitivity ==
    pc = "done" =>
        \A v \in Variants(generator) : compute_zarr_checksum(v).result # result

C4_Witness ==
    /\ pc = "done"
    /\ generator = <<R5, R3, R7>>
    /\ Cardinality(Variants(generator)) > Len(generator)

\* C5: a source without records that does not raise never ends in an
\* exception; the run goes on until it returns, and it returns the token of
\* the empty manifest with no file and no byte.
C5_EmptyInput ==
    (generator = <<>> /\ ~fails) =>
        /\ pc # "raised"
        /\ error = "none"
        /\ pc # "done" => ENABLED Next
        /\ pc = "done" => result = Returned(<<[md5 |-> <<>>], 0, 0>>)

C5_Witness ==
    /\ generator = <<>>
    /\ pc = "done"
    /\ calls = <<ProcessCallEntry>>
    /\ result.value[2] = 0

\* C8: process never raises StructuralInvariantError; every directory is
\* resolved after each of its subdirectories, in groups of non-increasing
\* depth, each directory once, and the root last.
C8_DepthOrder ==
    LET n == Len(resolveLog)
    IN  /\ error # "StructuralInvariantError"
        /\ \A j \in 1..n :
              /\ resolveLog[j] \in DOMAIN registry
              /\ \A s \in registry[resolveLog[j]].subdirectories :
                    \E k \in 1..(j - 1) : resolveLog[k] = Append(resolveLog[j], s)
              /\ \A k \in 1..(j - 1) :
                    /\ resolveLog[k] # resolveLog[j]
                    /\ Len(resolveLog[k]) >= Len(resolveLog[j])
        /\ \A p \in DOMAIN registry :
              registry[p].resolved.ok <=> \E j \in 1..n : resolveLog[j] = p
        /\ (pc = "done" /\ DOMAIN registry # {}) =>
              /\ resolveLog[n] = <<>>
              /\ {resolveLog[j] : j \in 1..n} = DOMAIN registry

C8_Witness ==
    /\ pc = "done"
    /\ generator = <<R6, R1, R3>>
    /\ resolveLog = << <<"a", "b">>, <<"c">>, <<"a">>, <<>> >>

ExpectedAdds(k) == [j \in 1..k |-> AddLeafCall(generator[j])]

\* C9: the calls made on the tree are add_leaf for the records of the source,
\* one each and in the source's order, followed by at most one process; process
\* is called only when every record has been added and the source has ended
\* normally, it is the last call, and a run that returns has made it.
C9_CallProtocol ==
    LET n == Len(generator)
    IN  /\ \/ \E k \in 0..n : calls = ExpectedAdds(k)
           \/ calls = ExpectedAdds(n) \o <<ProcessCallEntry>>
        /\ ProcessCalled => ~fails /\ DistinctPaths(generator)
        /\ pc \in {"in_process", "done"} <=> ProcessCalled
        /\ pc = "raised" => ~ProcessCalled /\ ~result.returned
        /\ pc = "done" <=> result.returned

C9_Witness ==
    /\ pc = "done"
    /\ Len(generator) = 3
    /\ calls = ExpectedAdds(3) \o <<ProcessCallEntry>>

(***************************************************************************)
(* yield_files_s3.  Keys and prefixes are strings: sequences of            *)
(* characters.  A path is a sequence of segments, each a string.           *)
(***************************************************************************)
SLASH == "/"

\* the keys a bucket may hold
KeyUniverse ==
    { <<"z", "/", "y">>,                 \* z/y
      <<"z", "/", "z", "/", "y">>,       \* z/z/y
      <<"z", "y", "/", "y">>,            \* zy/y : shares the string prefix z
      <<"z">>,                           \* z    : the prefix itself
      <<"z", "/">>,                      \* z/   : a directory placeholder
      <<"z", "/", ".", ".", "/", "y">>,  \* z/../y
      <<"z", "/", "/", "y">>,            \* z//y
      <<"z", "/", ".", "/", "y">>,       \* z/./y
      <<"y">>,                           \* y
      <<"/", "y">> }                     \* /y

\* the prefix arguments
PrefixUniverse ==
    { <<>>, <<"z">>, <<"z", "/">>, <<"z", "/", "z">> }

\* byte value of a character
CharRank(c) ==
    CASE c = "." -> 46 [] c = "/" -> 47 [] c = "y" -> 121 [] c = "z" -> 122

\* byte-wise order of strings
RECURSIVE StrLess(_, _)
StrLess(a, b) ==
    IF b = <<>> THEN FALSE
    ELSE IF a = <<>> THEN TRUE
    ELSE IF Head(a) = Head(b) THEN StrLess(Tail(a), Tail(b))
    ELSE CharRank(Head(a)) < CharRank(Head(b))

StartsWith(s, pre) == Len(pre) <= Len(s) /\ SubSeq(s, 1, Len(pre)) = pre

\* os.path.join(prefix, "")
JoinEmpty(pre) ==
    IF pre = <<>> \/ pre[Len(pre)] = SLASH THEN pre ELSE Append(pre, SLASH)

\* str.split("/")
RECURSIVE SplitSlash(_, _)
SplitSlash(s, cur) ==
    IF s = <<>> THEN <<cur>>
    ELSE IF Head(s) = SLASH THEN <<cur>> \o SplitSlash(Tail(s), <<>>)
    ELSE SplitSlash(Tail(s), Append(cur, Head(s)))

RECURSIVE DropEmptyAndDot(_)
DropEmptyAndDot(comps) ==
    IF comps = <<>> THEN <<>>
    ELSE IF Head(comps) = <<>> \/ Head(comps) = <<".">>
         THEN DropEmptyAndDot(Tail(comps))
         ELSE <<Head(comps)>> \o DropEmptyAndDot(Tail(comps))

\* the root of a POSIX path: "//" for exactly two leading slashes, "/" for one
\* or for three and more, none otherwise
RootOf(s) ==
    IF ~StartsWith(s, <<SLASH>>) THEN <<>>
    ELSE IF StartsWith(s, <<SLASH, SLASH>>) /\ ~StartsWith(s, <<SLASH, SLASH, SLASH>>)
         THEN <<SLASH, SLASH>>
         ELSE <<SLASH>>

\* Path(s): the root and the segments, with empty and "." segments dropped
Path(s) == [root |-> RootOf(s), parts |-> DropEmptyAndDot(SplitSlash(s, <<>>))]

\* the parts compared by relative_to: drive and root count as two parts
AbsParts(p) == IF p.root = <<>> THEN p.parts ELSE <<<<>>, p.root>> \o p.parts

\* Path.relative_to(other): ValueError unless other's parts lead self's
relative_to(self, other) ==
    LET abs == AbsParts(self)
        to == AbsParts(other)
        n == Len(to)
        bad == IF n = 0 THEN self.root # <<>>
               ELSE Len(abs) < n \/ SubSeq(abs, 1, n) # to
    IN  IF bad THEN [error |-> "ValueError", parts |-> <<>>]
        ELSE [error |-> "none", parts |-> SubSeq(abs, n + 1, Len(abs))]

QUOTE == "\""

\* str.strip('"')
RECURSIVE StripLeft(_)
StripLeft(s) == IF s # <<>> /\ Head(s) = QUOTE THEN StripLeft(Tail(s)) ELSE s

RECURSIVE StripRight(_)
StripRight(s) ==
    IF s # <<>> /\ s[Len(s)] = QUOTE THEN StripRight(SubSeq(s, 1, Len(s) - 1)) ELSE s

Strip(s) == StripRight(StripLeft(s))

\* an object of the bucket as a listing reports it
Object(key) == [Key |-> key, Size |-> Len(key), ETag |-> <<QUOTE, "e", QUOTE>>]

RECURSIVE SortedKeys(_)
SortedKeys(S) ==
    IF S = {} THEN <<>>
    ELSE LET m == CHOOSE k \in S : \A o \in S : o = k \/ StrLess(k, o)
         IN  <<m>> \o SortedKeys(S \ {m})

\* client.list_objects_v2: the keys that start with Prefix, in byte order, one
\* page of them from the token's position, and the token of the next page if any
list_objects_v2(bkt, size, pre, token) ==
    LET keys == SortedKeys({k \in bkt : StartsWith(k, pre)})
        from == IF token = 0 THEN 1 ELSE token
        to == IF from + size - 1 < Len(keys) THEN from + size - 1 ELSE Len(keys)
    IN  [Contents |-> [j \in 1..(to - from + 1) |-> Object(keys[from + j - 1])],
         NextContinuationToken |-> IF to < Len(keys) THEN to + 1 ELSE 0]

\* "Contents" in test_resp
HasContents(resp) == resp.Contents # <<>>

Request(pre, token) == [Prefix |-> pre, ContinuationToken |-> token]

InitS3 ==
    /\ bucket \in {b \in SUBSET KeyUniverse : Cardinality(b) <= MaxObjects}
    /\ pageSize \in 1..MaxKeys
    /\ prefix \in PrefixUniverse
    /\ s3pc = "probe"
    /\ continuation_token = 0
    /\ options = 0
    /\ res = NoResponse
    /\ mapped = <<>>
    /\ requests = <<>>
    /\ responses = <<>>
    /\ yielded = <<>>
    /\ s3error = "none"
    /\ generator = <<>>
    /\ fails = FALSE
    /\ pc = "idle"
    /\ i = 1
    /\ registry = EmptyRegistry
    /\ calls = <<>>
    /\ resolveLog = <<>>
    /\ error = "none"
    /\ result = NoResult

\* variant: the loop is entered whatever the probe found
ProbeFallsThrough ==
    /\ s3pc = "probe"
    /\ requests' = Append(requests, Request(JoinEmpty(prefix), 0))
    /\ s3pc' = "fetch"
    /\ UNCHANGED <<bucket, pageSize, prefix, continuation_token, options, res, mapped,
                   responses, yielded, s3error, treeVars>>

\* the probe: a listing of prefix + "/"; without Contents the generator ends
Probe ==
    /\ s3pc = "probe"
    /\ LET test_resp == list_objects_v2(bucket, pageSize, JoinEmpty(prefix), 0)
       IN  /\ requests' = Append(requests, Request(JoinEmpty(prefix), 0))
           /\ s3pc' = IF HasContents(test_resp) THEN "fetch" ELSE "done"
    /\ UNCHANGED <<bucket, pageSize, prefix, continuation_token, options, res, mapped,
                   responses, yielded, s3error, treeVars>>

\* one iteration's request: the token, if any, goes into options and stays there
Fetch ==
    /\ s3pc = "fetch"
    /\ options' = IF continuation_token # 0 THEN continuation_token ELSE options
    /\ res' = list_objects_v2(bucket, pageSize, prefix, options')
    /\ mapped' = res'.Contents
    /\ requests' = Append(requests, Request(prefix, options'))
    /\ responses' = Append(responses, res')
    /\ s3pc' = "yield"
    /\ UNCHANGED <<bucket, pageSize, prefix, continuation_token, yielded, s3error, treeVars>>

\* the generator maps the next object and yields it; relative_to may raise
YieldNext ==
    /\ s3pc = "yield"
    /\ mapped # <<>>
    /\ LET obj == Head(mapped)
           rel == relative_to(Path(obj.Key), Path(prefix))
       IN  IF rel.error = "none"
           THEN /\ yielded' = Append(yielded,
                        [key |-> obj.Key,
                         file |-> ChecksummedFile(rel.parts, obj.Size, Strip(obj.ETag))])
                /\ mapped' = Tail(mapped)
                /\ UNCHANGED <<s3pc, s3error>>
           ELSE /\ s3pc' = "raised"
                /\ s3error' = rel.error
                /\ UNCHANGED <<yielded, mapped>>
    /\ UNCHANGED <<bucket, pageSize, prefix, continuation_token, options, res, requests,
                   responses, treeVars>>

\* the page is exhausted: the next token decides between another request and the end
PageEnd ==
    /\ s3pc = "yield"
    /\ mapped = <<>>
    /\ continuation_token' = res.NextContinuationToken
    /\ s3pc' = IF res.NextContinuationToken = 0 THEN "done" ELSE "fetch"
    /\ UNCHANGED <<bucket, pageSize, prefix, options, res, mapped, requests, responses,
                   yielded, s3error, treeVars>>

NextS3 ==
    \/ Probe
    \/ Fetch
    \/ YieldNext
    \/ PageEnd

SpecS3 == InitS3 /\ [][NextS3]_vars

(***************************************************************************)
(* Properties of yield_files_s3, checked under SpecS3.                     *)
(***************************************************************************)
DOT == "."

WellFormedPath(path) ==
    /\ Len(path) >= 1
    /\ \A k \in 1..Len(path) :
          path[k] # <<>> /\ path[k] # <<DOT>> /\ path[k] # <<DOT, DOT>>

\* C6: producing a record never fails, and every record yielded carries the
\* key's path with the prefix directory removed: at least one segment, none
\* empty, "." or "..".
C6_RelativePaths ==
    /\ s3error = "none"
    /\ \A k \in 1..Len(yielded) :
          /\ WellFormedPath(yielded[k].file.path)
          /\ Path(yielded[k].key).parts = Path(prefix).parts \o yielded[k].file.path

ProbeFindsNothing == \A k \in bucket : ~StartsWith(k, JoinEmpty(prefix))

\* C7: when the probe listing has no contents, the generator ends normally
\* having yielded nothing and made no request but the probe.
C7_NothingUnderPrefix ==
    (s3pc # "probe" /\ ProbeFindsNothing) =>
        /\ s3pc = "done"
        /\ s3error = "none"
        /\ yielded = <<>>
        /\ requests = <<Request(JoinEmpty(prefix), 0)>>
        /\ responses = <<>>

C7_Witness ==
    /\ s3pc = "done"
    /\ prefix = <<"z">>
    /\ bucket = {<<"z", "y", "/", "y">>}
    /\ Len(requests) = 1

RECURSIVE FlattenKeys(_)
FlattenKeys(pages) ==
    IF pages = <<>> THEN <<>>
    ELSE [j \in 1..Len(Head(pages).Contents) |-> Head(pages).Contents[j].Key]
         \o FlattenKeys(Tail(pages))

YieldedKeys == [k \in 1..Len(yielded) |-> yielded[k].key]

\* the requests of the loop follow the chain of tokens
TokenChain ==
    /\ \A j \in 2..Len(requests) :
          /\ requests[j].Prefix = prefix
          /\ requests[j].ContinuationToken =
                IF j = 2 THEN 0 ELSE responses[j - 2].NextContinuationToken
    /\ \A j \in 1..(Len(responses) - 1) : responses[j].NextContinuationToken # 0
    /\ Len(requests) <= Len(responses) + 1

\* C10: the loop's first request carries no token and each later one the token
\* of the response before it; once the probe has found objects the enumeration
\* ends normally, after the first response without a token, having yielded the
\* objects of the pages in page order, each once.
C10_Pagination ==
    /\ TokenChain
    /\ (s3pc \in {"done", "raised"} /\ ~ProbeFindsNothing) =>
          /\ s3pc = "done"
          /\ responses # <<>>
          /\ responses[Len(responses)].NextContinuationToken = 0
          /\ YieldedKeys = FlattenKeys(responses)
          /\ \A j, k \in 1..Len(yielded) : j # k => yielded[j].key # yielded[k].key

====
